---------------------------- MODULE Spec2Model ----------------------------
(***************************************************************************)
(* A model of keyd's configuration compiler, src/src/config.c.             *)
(*                                                                         *)
(* C strings are sequences of one-character strings, so that the scanners  *)
(* of the source (strtok, strchr, strcmp, atoi, the argument scanner of    *)
(* parse_fn) are modelled by what they do to the characters.  A NULL       *)
(* pointer returned by strtok is the empty sequence: strtok never returns  *)
(* an empty token.                                                         *)
(*                                                                         *)
(* An array with a count (layers/nr_layers, macros/nr_macros, ...) is a    *)
(* sequence whose length is the count.  The slot at index nr_layers, which *)
(* new_layer writes before config_add_layer decides to keep it, is the     *)
(* field spare_layer.                                                      *)
(***************************************************************************)
EXTENDS Integers, Sequences, FiniteSets, TLC

VARIABLES
    config,     \* struct config
    call,       \* the last operation: [op, arg, ret]
    aborted,    \* TRUE once an assert() of the source has failed
    ncalls,     \* number of operations applied since construction
    rf          \* the activation of read_file

vars == <<config, call, aborted, ncalls, rf>>

---------------------------------------------------------------------------
(* Bounds of the model.  The capacities of keyd.h are scaled down.         *)

MaxCalls == 3
MAX_LAYERS == 8
MaxConstituents == 2
MaxDescriptors == 2
MaxMacros == 2
MaxCommands == 1
MaxMacroEntries == 3
MaxIds == 2
MaxAliasLen == 8
MaxCommandLen == 12
MAX_EXP_LEN == 64

(* Program constants. *)
MAX_FILE_SZ == 65536
MAX_LINE_LEN == 256
MacroBufSz == 1024
MAX_DESCRIPTOR_ARGS == 3

---------------------------------------------------------------------------
(* C library.                                                              *)

Min(S) == CHOOSE x \in S : \A y \in S : x <= y

Range(f) == {f[i] : i \in DOMAIN f}

\* strchr(s, c) != NULL
strchr(s, c) == \E i \in 1..Len(s) : s[i] = c

\* the offset (1-based) of the first c in s, 0 when there is none
IndexOf(s, c) == IF strchr(s, c) THEN Min({i \in 1..Len(s) : s[i] = c}) ELSE 0

\* strstr(s, p) == s, strncmp(s, p, strlen(p)) == 0
StartsWith(s, p) == Len(s) >= Len(p) /\ SubSeq(s, 1, Len(p)) = p

EndsWith(s, p) == Len(s) >= Len(p) /\ SubSeq(s, Len(s) - Len(p) + 1, Len(s)) = p

\* The tokens strtok(s, d), strtok(NULL, d), ... return, in order: the
\* maximal runs of characters other than d.  Empty runs are skipped.
RECURSIVE strtok(_, _)
strtok(s, d) ==
    IF s = <<>> THEN <<>>
    ELSE IF s[1] = d THEN strtok(Tail(s), d)
    ELSE LET i == IndexOf(s, d)
         IN  IF i = 0 THEN <<s>>
             ELSE <<SubSeq(s, 1, i - 1)>> \o strtok(SubSeq(s, i + 1, Len(s)), d)

Digits == <<"0", "1", "2", "3", "4", "5", "6", "7", "8", "9">>

IsDigit(c) == \E i \in 1..10 : Digits[i] = c

DigitVal(c) == (CHOOSE i \in 1..10 : Digits[i] = c) - 1

RECURSIVE atoi_digits(_, _)
atoi_digits(s, acc) ==
    IF s = <<>> \/ ~IsDigit(s[1]) THEN acc
    ELSE atoi_digits(Tail(s), acc * 10 + DigitVal(s[1]))

\* atoi: leading blanks, an optional sign, then the leading digits.
RECURSIVE atoi(_)
atoi(s) ==
    IF s = <<>> THEN 0
    ELSE IF s[1] = " " THEN atoi(Tail(s))
    ELSE IF s[1] = "-" THEN 0 - atoi_digits(Tail(s), 0)
    ELSE IF s[1] = "+" THEN atoi_digits(Tail(s), 0)
    ELSE atoi_digits(s, 0)

\* a value stored into a uint16_t field
U16(n) == n % 65536

---------------------------------------------------------------------------
(* External collaborators: keys.h, ini.c, string.c.                        *)

\* keycode_table[code]: name, alt_name, shifted_name (<<>> where NULL).
\* Only the codes named here are modelled; every other slot of the
\* 256-entry arrays has a NULL name and is never read or written by name.
keycode_table ==
    (1   :> [name |-> <<"e","s","c">>, alt_name |-> <<"e","s","c","a","p","e">>, shifted_name |-> <<>>]) @@
    (2   :> [name |-> <<"1">>, alt_name |-> <<>>, shifted_name |-> <<"!">>]) @@
    (29  :> [name |-> <<"l","e","f","t","c","o","n","t","r","o","l">>, alt_name |-> <<>>, shifted_name |-> <<>>]) @@
    (30  :> [name |-> <<"a">>, alt_name |-> <<>>, shifted_name |-> <<"A">>]) @@
    (42  :> [name |-> <<"l","e","f","t","s","h","i","f","t">>, alt_name |-> <<>>, shifted_name |-> <<>>]) @@
    (48  :> [name |-> <<"b">>, alt_name |-> <<>>, shifted_name |-> <<"B">>]) @@
    (54  :> [name |-> <<"r","i","g","h","t","s","h","i","f","t">>, alt_name |-> <<>>, shifted_name |-> <<>>]) @@
    (56  :> [name |-> <<"l","e","f","t","a","l","t">>, alt_name |-> <<>>, shifted_name |-> <<>>]) @@
    (97  :> [name |-> <<"r","i","g","h","t","c","o","n","t","r","o","l">>, alt_name |-> <<>>, shifted_name |-> <<>>]) @@
    (100 :> [name |-> <<"r","i","g","h","t","a","l","t">>, alt_name |-> <<>>, shifted_name |-> <<>>]) @@
    (125 :> [name |-> <<"l","e","f","t","m","e","t","a">>, alt_name |-> <<>>, shifted_name |-> <<>>]) @@
    (126 :> [name |-> <<"r","i","g","h","t","m","e","t","a">>, alt_name |-> <<>>, shifted_name |-> <<>>])

KeyCodes == {0} \cup DOMAIN keycode_table

\* modifier_table[i]: the modifier's layer name, its type letter, its mask
\* and its two keycodes.
modifier_table ==
    << [name |-> <<"c","o","n","t","r","o","l">>, letter |-> "C", mask |-> 1, code1 |-> 29, code2 |-> 97],
       [name |-> <<"s","h","i","f","t">>, letter |-> "S", mask |-> 2, code1 |-> 42, code2 |-> 54],
       [name |-> <<"m","e","t","a">>, letter |-> "M", mask |-> 4, code1 |-> 125, code2 |-> 126],
       [name |-> <<"a","l","t">>, letter |-> "A", mask |-> 8, code1 |-> 56, code2 |-> 56],
       [name |-> <<"a","l","t","g","r">>, letter |-> "G", mask |-> 16, code1 |-> 100, code2 |-> 100] >>

MAX_MOD == Len(modifier_table)

MOD_SHIFT == modifier_table[2].mask

\* parse_modset(s, &mods): a '-'-separated list of modifier letters.
\* ret = 0 and the or of the masks, or ret = -1.
parse_modset(s) ==
    LET parts == strtok(s, "-")
        known(p) == Len(p) = 1 /\ \E i \in 1..MAX_MOD : modifier_table[i].letter = p[1]
        used == {i \in 1..MAX_MOD : \E k \in 1..Len(parts) : parts[k] = <<modifier_table[i].letter>>}
        RECURSIVE sum(_)
        sum(S) == IF S = {} THEN 0
                  ELSE LET i == CHOOSE i \in S : TRUE
                       IN  modifier_table[i].mask + sum(S \ {i})
    IN  IF parts # <<>> /\ \A k \in 1..Len(parts) : known(parts[k])
        THEN [ret |-> 0, mods |-> sum(used)]
        ELSE [ret |-> -1, mods |-> 0]

\* parse_key_sequence(s, &code, &mods): a key's name or alternate name.
\* Modifier-prefixed sequences are not drawn as inputs and are reported as
\* not a sequence.
parse_key_sequence(s) ==
    LET hits == {c \in DOMAIN keycode_table :
                    s # <<>> /\ (keycode_table[c].name = s \/ keycode_table[c].alt_name = s)}
    IN  IF hits = {} THEN [ret |-> -1, code |-> 0, mods |-> 0]
        ELSE [ret |-> 0, code |-> Min(hits), mods |-> 0]

\* str_escape(s): a backslash stands for the character after it.
RECURSIVE str_escape(_)
str_escape(s) ==
    IF s = <<>> THEN <<>>
    ELSE IF s[1] = "\\" /\ Len(s) >= 2 THEN <<s[2]>> \o str_escape(SubSeq(s, 3, Len(s)))
    ELSE <<s[1]>> \o str_escape(Tail(s))

\* utf8_strlen(s): the inputs are ASCII, one byte per character.
utf8_strlen(s) == Len(s)

RECURSIVE rtrim(_)
rtrim(s) == IF s # <<>> /\ s[Len(s)] = " " THEN rtrim(SubSeq(s, 1, Len(s) - 1)) ELSE s

RECURSIVE ltrim(_)
ltrim(s) == IF s # <<>> /\ s[1] = " " THEN ltrim(Tail(s)) ELSE s

\* parse_kvp(s, &key, &value): splits "key = value" at the first '='.
\* has_value is FALSE (value NULL) when there is no '='.
parse_kvp(s) ==
    LET i == IndexOf(s, "=")
    IN  IF i = 0 THEN [key |-> s, has_value |-> FALSE, value |-> <<>>]
        ELSE [key |-> rtrim(SubSeq(s, 1, i - 1)), has_value |-> TRUE,
              value |-> ltrim(SubSeq(s, i + 1, Len(s)))]

---------------------------------------------------------------------------
(* lookup_keycode, config_get_layer_index                                  *)

\* config.c:152
lookup_keycode(name) ==
    LET hits == {c \in DOMAIN keycode_table :
                    keycode_table[c].name # <<>> /\
                    (keycode_table[c].name = name \/
                     (keycode_table[c].alt_name # <<>> /\ keycode_table[c].alt_name = name))}
    IN  IF hits = {} THEN 0 ELSE Min(hits)

nr_layers(cfg) == Len(cfg.layers)
nr_descriptors(cfg) == Len(cfg.descriptors)
nr_macros(cfg) == Len(cfg.macros)
nr_commands(cfg) == Len(cfg.commands)

\* config.c:849.  Layer indices are 0-based as in the source; layers[i] of
\* the source is cfg.layers[i + 1].  name = <<>> is the NULL pointer.
config_get_layer_index(cfg, name) ==
    LET hits == {i \in 0..(nr_layers(cfg) - 1) : cfg.layers[i + 1].name = name}
    IN  IF name = <<>> THEN -1
        ELSE IF hits = {} THEN -1 ELSE Min(hits)

---------------------------------------------------------------------------
(* Layer registry: new_layer, config_add_layer                             *)

\* memset(config, 0, sizeof *config)
ZeroDescriptor == [op |-> "0", args |-> <<0, 0, 0>>]

ZeroLayer ==
    [name |-> <<>>, type |-> "LT_NORMAL", mods |-> 0,
     constituents |-> <<>>, keymap |-> [c \in KeyCodes |-> ZeroDescriptor]]

\* config.c:225-239, the loop over the '+'-separated parts.  n, which the
\* capacity test reads, is never incremented.  A store at an index at or
\* beyond MaxConstituents lands past the end of the array: the sequence
\* then is longer than the array.
\* store_constituent storing at the front
store_constituent_front(layer, idx) == [layer EXCEPT !.constituents = <<idx>> \o @]

\* config.c:238
store_constituent(layer, idx) == [layer EXCEPT !.constituents = Append(@, idx)]

RECURSIVE new_layer_constituents(_, _, _, _)
new_layer_constituents(parts, cfg, layer, n) ==
    IF parts = <<>> THEN [ret |-> 0, layer |-> layer]
    ELSE LET idx == config_get_layer_index(cfg, parts[1])
         IN  IF idx < 0 THEN [ret |-> -1, layer |-> layer]
             ELSE IF n >= MaxConstituents THEN [ret |-> -1, layer |-> layer]
             ELSE new_layer_constituents(Tail(parts), cfg, store_constituent(layer, idx), n)

\* config.c:202.  layer is the slot the result is written to.
new_layer(s, cfg, layer) ==
    LET toks == strtok(s, ":")
        name == toks[1]
        type == IF Len(toks) >= 2 THEN toks[2] ELSE <<>>
        l1 == [layer EXCEPT !.name = name]
    IN  IF strchr(name, "+")
        THEN LET l2 == [l1 EXCEPT !.type = "LT_COMPOSITE", !.constituents = <<>>]
             IN  IF type # <<>> THEN [ret |-> -1, layer |-> l2]
                 ELSE new_layer_constituents(strtok(name, "+"), cfg, l2, 0)
        ELSE IF type # <<>> /\ type = <<"l","a","y","o","u","t">>
        THEN [ret |-> 0, layer |-> [l1 EXCEPT !.type = "LT_LAYOUT"]]
        ELSE IF type # <<>> /\ parse_modset(type).ret = 0
        THEN [ret |-> 0, layer |-> [l1 EXCEPT !.type = "LT_NORMAL", !.mods = parse_modset(type).mods]]
        ELSE [ret |-> 0, layer |-> [l1 EXCEPT !.type = "LT_NORMAL", !.mods = 0]]

\* config_add_layer without the lookup of the name
config_add_layer_no_lookup(cfg, s) ==
    IF nr_layers(cfg) >= MAX_LAYERS THEN [ret |-> -1, cfg |-> cfg]
    ELSE LET r == new_layer(s, cfg, cfg.spare_layer)
         IN  IF r.ret < 0
             THEN [ret |-> -1, cfg |-> [cfg EXCEPT !.spare_layer = r.layer]]
             ELSE [ret |-> 0,
                   cfg |-> [cfg EXCEPT !.layers = Append(@, r.layer),
                                       !.spare_layer = ZeroLayer]]

\* config.c:264.  Returns [ret, cfg]: 1 exists, 0 created, -1 error.
config_add_layer(cfg, s) ==
    LET toks == strtok(s, ":")
        name == IF toks = <<>> THEN <<>> ELSE toks[1]
    IN  IF config_get_layer_index(cfg, name) # -1 THEN [ret |-> 1, cfg |-> cfg]
        ELSE IF nr_layers(cfg) >= MAX_LAYERS THEN [ret |-> -1, cfg |-> cfg]
        ELSE LET r == new_layer(s, cfg, cfg.spare_layer)
             IN  IF r.ret < 0
                 THEN [ret |-> -1, cfg |-> [cfg EXCEPT !.spare_layer = r.layer]]
                 ELSE [ret |-> 0,
                       cfg |-> [cfg EXCEPT !.layers = Append(@, r.layer),
                                           !.spare_layer = ZeroLayer]]

---------------------------------------------------------------------------
(* parse_fn: the argument scanner                                          *)

\* config.c:358-382, the inner while (*c): the offset it stops at.
\* Len(s) + 1 is the terminating NUL.
RECURSIVE parse_fn_scan(_, _, _)
parse_fn_scan(s, c, plvl) ==
    IF c > Len(s) THEN c
    ELSE IF s[c] = "\\"
    THEN IF c + 1 <= Len(s) THEN parse_fn_scan(s, c + 2, plvl)
         ELSE parse_fn_scan(s, c + 1, plvl)
    ELSE IF s[c] = "("
    THEN parse_fn_scan(s, c + 1, plvl + 1)
    ELSE IF s[c] = ")"
    THEN IF plvl - 1 = -1 THEN c ELSE parse_fn_scan(s, c + 1, plvl - 1)
    ELSE IF s[c] = ","
    THEN IF plvl = 0 THEN c ELSE parse_fn_scan(s, c + 1, plvl)
    ELSE parse_fn_scan(s, c + 1, plvl)

\* while (*c == ' ') c++;
RECURSIVE skip_spaces(_, _)
skip_spaces(s, c) == IF c <= Len(s) /\ s[c] = " " THEN skip_spaces(s, c + 1) ELSE c

\* config.c:355-402, the while (1): arg is the offset the current argument
\* starts at, args the arguments found so far.  assert(*nargs <
\* MAX_DESCRIPTOR_ARGS) aborts the process: <assert.h> is included and
\* NDEBUG is never defined.
RECURSIVE parse_fn_args(_, _, _)
parse_fn_args(s, arg, args) ==
    LET c == parse_fn_scan(s, arg, 0)
    IN  IF c > Len(s) THEN [ret |-> -1, args |-> args, abort |-> FALSE]
        ELSE IF arg # c /\ ~(Len(args) < MAX_DESCRIPTOR_ARGS)
        THEN [ret |-> -1, args |-> args, abort |-> TRUE]
        ELSE LET args1 == IF arg # c THEN Append(args, SubSeq(s, arg, c - 1)) ELSE args
             IN  IF s[c] = ")" THEN [ret |-> 0, args |-> args1, abort |-> FALSE]
                 ELSE parse_fn_args(s, skip_spaces(s, c + 1), args1)

\* config.c:333
parse_fn(s) ==
    LET open == IndexOf(s, "(")
    IN  IF open = 0 THEN [ret |-> -1, name |-> <<>>, args |-> <<>>, abort |-> FALSE]
        ELSE LET r == parse_fn_args(s, skip_spaces(s, open + 1), <<>>)
             IN  [ret |-> r.ret, name |-> SubSeq(s, 1, open - 1),
                  args |-> r.args, abort |-> r.abort]

---------------------------------------------------------------------------
(* Macro compiler                                                          *)

\* ADD_ENTRY, config.c:419.  A macro is the sequence of its sz entries.
ADD_ENTRY(macro, t, d) ==
    IF Len(macro) >= MaxMacroEntries THEN [ret |-> 1, macro |-> macro]
    ELSE [ret |-> 0, macro |-> Append(macro, [type |-> t, data |-> U16(d)])]

IsTimeoutToken(tok) == Len(tok) > 1 /\ tok[Len(tok) - 1] = "m" /\ tok[Len(tok)] = "s"

\* config.c:465-471, one part of a chord
macro_chord_key(key, macro) ==
    IF IsTimeoutToken(key) THEN ADD_ENTRY(macro, "MACRO_TIMEOUT", atoi(key))
    ELSE IF parse_key_sequence(key).ret = 0
    THEN ADD_ENTRY(macro, "MACRO_HOLD", parse_key_sequence(key).code)
    ELSE [ret |-> -1, macro |-> macro]

\* config.c:462-473, the parts of a chord.  st is [ret, macro] so far; the
\* first failure ends the loop.
RECURSIVE macro_chord(_, _)
macro_chord(keys, st) ==
    IF keys = <<>> \/ st.ret # 0 THEN st
    ELSE macro_chord(Tail(keys), macro_chord_key(keys[1], st.macro))

\* macro_release adding nothing
macro_no_release(st) == st

\* config.c:475, the release that ends a chord
macro_release(st) ==
    IF st.ret # 0 THEN st ELSE ADD_ENTRY(st.macro, "MACRO_RELEASE", 0)

\* config.c:487-503, one character of literal text.  The inputs are ASCII:
\* no character reaches lookup_xcompose_index.
macro_literal_char(c, macro) ==
    LET hits == {i \in DOMAIN keycode_table :
                    keycode_table[i].name = <<c>> \/ keycode_table[i].shifted_name = <<c>>}
        i == Min(hits)
    IN  IF hits = {} THEN [ret |-> 0, macro |-> macro]
        ELSE IF keycode_table[i].name = <<c>>
        THEN ADD_ENTRY(macro, "MACRO_KEYSEQUENCE", i)
        ELSE ADD_ENTRY(macro, "MACRO_KEYSEQUENCE", MOD_SHIFT * 256 + i)

\* config.c:482-505, a token of literal text, character by character
RECURSIVE macro_literal(_, _)
macro_literal(tok, st) ==
    IF tok = <<>> \/ st.ret # 0 THEN st
    ELSE macro_literal(Tail(tok), macro_literal_char(tok[1], st.macro))

\* config.c:456-506, one token of the expression
macro_token(tok, macro) ==
    IF parse_key_sequence(tok).ret = 0
    THEN ADD_ENTRY(macro, "MACRO_KEYSEQUENCE",
                   parse_key_sequence(tok).mods * 256 + parse_key_sequence(tok).code)
    ELSE IF strchr(tok, "+")
    THEN macro_release(macro_chord(strtok(tok, "+"), [ret |-> 0, macro |-> macro]))
    ELSE IF IsTimeoutToken(tok)
    THEN ADD_ENTRY(macro, "MACRO_TIMEOUT", atoi(tok))
    ELSE macro_literal(tok, [ret |-> 0, macro |-> macro])

\* config.c:453-507, the tokens of the expression
RECURSIVE macro_tokens(_, _)
macro_tokens(toks, st) ==
    IF toks = <<>> \/ st.ret # 0 THEN st
    ELSE macro_tokens(Tail(toks), macro_token(toks[1], st.macro))

\* config.c:415.  macro is the struct the result is written to.
\* ret: 0 success, -1 not a macro expression, 1 any other error.
parse_macro_expression(s, macro) ==
    LET len == Len(s)
        wrapped == StartsWith(s, <<"m","a","c","r","o","(">>) /\ s[len] = ")"
        ptr == IF wrapped THEN SubSeq(s, 7, len - 1) ELSE s
    IN  IF len >= MacroBufSz THEN [ret |-> -1, macro |-> macro]
        ELSE IF ~wrapped /\ parse_key_sequence(ptr).ret # 0 /\ utf8_strlen(ptr) # 1
        THEN [ret |-> -1, macro |-> macro]
        ELSE macro_tokens(strtok(str_escape(ptr), " "), [ret |-> 0, macro |-> <<>>])

\* config.c:514
parse_command(s) ==
    LET len == Len(s)
    IN  IF len = 0 \/ ~StartsWith(s, <<"c","o","m","m","a","n","d","(">>) \/ s[len] # ")"
        THEN [ret |-> -1, cmd |-> <<>>]
        ELSE IF len > MaxCommandLen THEN [ret |-> 1, cmd |-> <<>>]
        ELSE [ret |-> 0, cmd |-> str_escape(SubSeq(s, 9, len - 1))]

---------------------------------------------------------------------------
(* Descriptor compiler                                                     *)

\* config.c:45
actions ==
    << [name |-> <<"s","w","a","p">>, op |-> "OP_SWAP", args |-> <<"ARG_LAYER">>],
       [name |-> <<"s","w","a","p","2">>, op |-> "OP_SWAP2", args |-> <<"ARG_LAYER", "ARG_MACRO">>],
       [name |-> <<"c","l","e","a","r">>, op |-> "OP_CLEAR", args |-> <<>>],
       [name |-> <<"o","n","e","s","h","o","t">>, op |-> "OP_ONESHOT", args |-> <<"ARG_LAYER">>],
       [name |-> <<"t","o","g","g","l","e">>, op |-> "OP_TOGGLE", args |-> <<"ARG_LAYER">>],
       [name |-> <<"t","o","g","g","l","e","2">>, op |-> "OP_TOGGLE2", args |-> <<"ARG_LAYER", "ARG_MACRO">>],
       [name |-> <<"l","a","y","e","r">>, op |-> "OP_LAYER", args |-> <<"ARG_LAYER">>],
       [name |-> <<"o","v","e","r","l","o","a","d">>, op |-> "OP_OVERLOAD", args |-> <<"ARG_LAYER", "ARG_DESCRIPTOR">>],
       [name |-> <<"t","i","m","e","o","u","t">>, op |-> "OP_TIMEOUT", args |-> <<"ARG_DESCRIPTOR", "ARG_TIMEOUT", "ARG_DESCRIPTOR">>],
       [name |-> <<"m","a","c","r","o","2">>, op |-> "OP_MACRO2", args |-> <<"ARG_TIMEOUT", "ARG_TIMEOUT", "ARG_MACRO">>],
       [name |-> <<"s","e","t","l","a","y","o","u","t">>, op |-> "OP_LAYOUT", args |-> <<"ARG_LAYOUT">>] >>

\* The argument types of an operation, by its op code.
ArgTypes(op) ==
    IF \E i \in 1..Len(actions) : actions[i].op = op
    THEN actions[CHOOSE i \in 1..Len(actions) : actions[i].op = op].args
    ELSE IF op = "OP_MACRO" THEN <<"ARG_MACRO">>
    ELSE IF op = "OP_COMMAND" THEN <<"ARG_COMMAND">>
    ELSE <<>>

\* An uninitialised struct descriptor on the stack (config.c:616, 871):
\* every field holds the indeterminate value junk.
JunkDescriptor(junk) == [op |-> "junk", args |-> <<junk, junk, junk>>]

\* arg_layer without the test for main
arg_layer_any_name(argstr, j, d, cfg) ==
    LET idx == config_get_layer_index(cfg, argstr)
    IN  IF idx = -1 \/ cfg.layers[idx + 1].type = "LT_LAYOUT"
        THEN [ret |-> -1, d |-> [d EXCEPT !.args[j + 1] = idx], cfg |-> cfg, abort |-> FALSE]
        ELSE [ret |-> 0, d |-> [d EXCEPT !.args[j + 1] = idx], cfg |-> cfg, abort |-> FALSE]

\* config.c:619-631, case ARG_LAYER.  j is the 0-based argument index.
\* The cases return [ret, d, cfg, abort].
arg_layer(argstr, j, d, cfg) ==
    LET idx == config_get_layer_index(cfg, argstr)
    IN  IF argstr = <<"m","a","i","n">>
        THEN [ret |-> -1, d |-> d, cfg |-> cfg, abort |-> FALSE]
        ELSE IF idx = -1 \/ cfg.layers[idx + 1].type = "LT_LAYOUT"
        THEN [ret |-> -1, d |-> [d EXCEPT !.args[j + 1] = idx], cfg |-> cfg, abort |-> FALSE]
        ELSE [ret |-> 0, d |-> [d EXCEPT !.args[j + 1] = idx], cfg |-> cfg, abort |-> FALSE]

\* config.c:632-639, case ARG_LAYOUT
arg_layout(argstr, j, d, cfg) ==
    LET idx == config_get_layer_index(cfg, argstr)
    IN  IF idx = -1 \/ cfg.layers[idx + 1].type # "LT_LAYOUT"
        THEN [ret |-> -1, d |-> [d EXCEPT !.args[j + 1] = idx], cfg |-> cfg, abort |-> FALSE]
        ELSE [ret |-> 0, d |-> [d EXCEPT !.args[j + 1] = idx], cfg |-> cfg, abort |-> FALSE]

\* config.c:655-668, case ARG_MACRO, after parse_macro_expression returned
\* r.  A failed parse leaves what it wrote in macros[nr_macros], beyond the
\* count.
arg_macro_store(r, j, d, cfg) ==
    IF nr_macros(cfg) >= MaxMacros THEN [ret |-> -1, d |-> d, cfg |-> cfg, abort |-> FALSE]
    ELSE IF r.ret # 0 THEN [ret |-> -1, d |-> d, cfg |-> cfg, abort |-> FALSE]
    ELSE [ret |-> 0, d |-> [d EXCEPT !.args[j + 1] = nr_macros(cfg)],
          cfg |-> [cfg EXCEPT !.macros = Append(@, r.macro)], abort |-> FALSE]

arg_macro(argstr, j, d, cfg) ==
    arg_macro_store(parse_macro_expression(argstr, <<>>), j, d, cfg)

\* config.c:652, case ARG_TIMEOUT
arg_timeout(argstr, j, d, cfg) ==
    [ret |-> 0, d |-> [d EXCEPT !.args[j + 1] = U16(atoi(argstr))], cfg |-> cfg, abort |-> FALSE]

\* arg_descriptor_store recording the index after the stored entry
arg_descriptor_store_next(desc, j, d, cfg) ==
    IF nr_descriptors(cfg) >= MaxDescriptors
    THEN [ret |-> -1, d |-> d, cfg |-> cfg, abort |-> FALSE]
    ELSE [ret |-> 0, d |-> [d EXCEPT !.args[j + 1] = nr_descriptors(cfg) + 1],
          cfg |-> [cfg EXCEPT !.descriptors = Append(@, desc)], abort |-> FALSE]

\* config.c:644-651, case ARG_DESCRIPTOR after the nested parse: desc is
\* appended to the pool.
arg_descriptor_store(desc, j, d, cfg) ==
    IF nr_descriptors(cfg) >= MaxDescriptors
    THEN [ret |-> -1, d |-> d, cfg |-> cfg, abort |-> FALSE]
    ELSE [ret |-> 0, d |-> [d EXCEPT !.args[j + 1] = nr_descriptors(cfg)],
          cfg |-> [cfg EXCEPT !.descriptors = Append(@, desc)], abort |-> FALSE]

\* config.c:640-651, case ARG_DESCRIPTOR: nested is what parse_descriptor
\* returned for the argument.
arg_descriptor(nested, j, d) ==
    IF nested.abort \/ nested.ret # 0
    THEN [ret |-> -1, d |-> d, cfg |-> nested.cfg, abort |-> nested.abort]
    ELSE arg_descriptor_store(nested.d, j, d, nested.cfg)

\* config.c:537-541, a key sequence: ks is what parse_key_sequence returned
descriptor_keysequence(ks, d, cfg) ==
    [ret |-> 0,
     d |-> [d EXCEPT !.op = "OP_KEYSEQUENCE", !.args[1] = ks.code, !.args[2] = ks.mods],
     cfg |-> cfg, abort |-> FALSE]

\* config.c:547-559, a command: pc is what parse_command returned (>= 0)
descriptor_command(pc, d, cfg) ==
    IF pc.ret # 0 THEN [ret |-> -1, d |-> d, cfg |-> cfg, abort |-> FALSE]
    ELSE IF nr_commands(cfg) >= MaxCommands
    THEN [ret |-> -1, d |-> d, cfg |-> cfg, abort |-> FALSE]
    ELSE [ret |-> 0,
          d |-> [d EXCEPT !.op = "OP_COMMAND", !.args[1] = nr_commands(cfg)],
          cfg |-> [cfg EXCEPT !.commands = Append(@, pc.cmd)], abort |-> FALSE]

\* config.c:560-573, a macro: pm is what parse_macro_expression returned
\* (>= 0)
descriptor_macro(pm, d, cfg) ==
    IF pm.ret # 0 THEN [ret |-> -1, d |-> d, cfg |-> cfg, abort |-> FALSE]
    ELSE IF nr_macros(cfg) >= MaxMacros
    THEN [ret |-> -1, d |-> d, cfg |-> cfg, abort |-> FALSE]
    ELSE [ret |-> 0,
          d |-> [d EXCEPT !.op = "OP_MACRO", !.args[1] = nr_macros(cfg)],
          cfg |-> [cfg EXCEPT !.macros = Append(@, pm.macro)], abort |-> FALSE]

\* config.c:533.  parse_descriptor(s, d, config) returns [ret, d, cfg,
\* abort]; junk is the content of its uninitialised locals.
RECURSIVE parse_descriptor(_, _, _, _)

\* config.c:617-672, the switch on the type of the argument of 0-based
\* index j.  st is [ret, d, cfg, abort] so far.
parse_descriptor_arg(type, argstr, j, st, junk) ==
    IF type = "ARG_LAYER" THEN arg_layer(argstr, j, st.d, st.cfg)
    ELSE IF type = "ARG_LAYOUT" THEN arg_layout(argstr, j, st.d, st.cfg)
    ELSE IF type = "ARG_DESCRIPTOR"
    THEN arg_descriptor(parse_descriptor(argstr, JunkDescriptor(junk), st.cfg, junk), j, st.d)
    ELSE IF type = "ARG_TIMEOUT" THEN arg_timeout(argstr, j, st.d, st.cfg)
    ELSE arg_macro(argstr, j, st.d, st.cfg)

\* config.c:612, while (j--): the arguments from the last to the first;
\* the first failure returns.
RECURSIVE parse_descriptor_args(_, _, _, _, _)
parse_descriptor_args(act, args, j, st, junk) ==
    IF j = 0 \/ st.ret # 0 \/ st.abort THEN st
    ELSE parse_descriptor_args(act, args, j - 1,
             parse_descriptor_arg(act.args[j], args[j], j - 1, st, junk), junk)

\* config.c:574-679, a function call: pf is what parse_fn returned
parse_descriptor_fn(pf, d, cfg, junk) ==
    IF pf.abort THEN [ret |-> -1, d |-> d, cfg |-> cfg, abort |-> TRUE]
    ELSE IF pf.ret = 0 /\ \E i \in 1..Len(actions) : actions[i].name = pf.name
    THEN LET act == actions[Min({i \in 1..Len(actions) : actions[i].name = pf.name})]
         IN  IF Len(pf.args) # Len(act.args)
             THEN [ret |-> -1, d |-> [d EXCEPT !.op = act.op], cfg |-> cfg, abort |-> FALSE]
             ELSE parse_descriptor_args(act, pf.args, Len(act.args),
                      [ret |-> 0, d |-> [d EXCEPT !.op = act.op], cfg |-> cfg, abort |-> FALSE],
                      junk)
    ELSE [ret |-> -1, d |-> d, cfg |-> cfg, abort |-> FALSE]

parse_descriptor(s, d, cfg, junk) ==
    IF s = <<>>
    THEN [ret |-> 0, d |-> [d EXCEPT !.op = "0"], cfg |-> cfg, abort |-> FALSE]
    ELSE IF parse_key_sequence(s).ret = 0
    THEN descriptor_keysequence(parse_key_sequence(s), d, cfg)
    ELSE IF parse_command(s).ret >= 0
    THEN descriptor_command(parse_command(s), d, cfg)
    ELSE IF parse_macro_expression(s, <<>>).ret >= 0
    THEN descriptor_macro(parse_macro_expression(s, <<>>), d, cfg)
    ELSE parse_descriptor_fn(parse_fn(s), d, cfg, junk)

---------------------------------------------------------------------------
(* Entry binding: set_layer_entry, config_add_entry                        *)

\* config.c:174.  layer is the 0-based index of the layer written to.
set_layer_entry(cfg, layer, key, d) ==
    LET hits == {i \in KeyCodes : cfg.aliases[i] = key}
        code == lookup_keycode(key)
    IN  IF hits # {}
        THEN [ret |-> 0, abort |-> FALSE,
              cfg |-> [cfg EXCEPT !.layers[layer + 1].keymap =
                          [i \in KeyCodes |-> IF i \in hits THEN d ELSE @[i]]]]
        ELSE IF code = 0 THEN [ret |-> -1, cfg |-> cfg, abort |-> FALSE]
        ELSE [ret |-> 0, abort |-> FALSE,
              cfg |-> [cfg EXCEPT !.layers[layer + 1].keymap[code] = d]]

\* config.c:896-901: p is what parse_descriptor returned for the value
config_add_entry_bind(p, idx, key) ==
    IF p.abort THEN [ret |-> -1, cfg |-> p.cfg, abort |-> TRUE]
    ELSE IF p.ret < 0 THEN [ret |-> -1, cfg |-> p.cfg, abort |-> FALSE]
    ELSE set_layer_entry(p.cfg, idx, key, p.d)

\* config.c:867.  Returns [ret, cfg, abort].
config_add_entry(cfg, exp, junk) ==
    LET dot == IndexOf(exp, ".")
        paren == IndexOf(exp, "(")
        qualified == dot # 0 /\ (paren = 0 \/ dot < paren)
        layername == IF qualified THEN SubSeq(exp, 1, dot - 1) ELSE <<"m","a","i","n">>
        s == IF qualified THEN SubSeq(exp, dot + 1, Len(exp)) ELSE exp
        kvp == parse_kvp(s)
        idx == config_get_layer_index(cfg, layername)
    IN  IF Len(exp) >= MAX_EXP_LEN THEN [ret |-> -1, cfg |-> cfg, abort |-> FALSE]
        ELSE IF idx = -1 THEN [ret |-> -1, cfg |-> cfg, abort |-> FALSE]
        ELSE config_add_entry_bind(
                 parse_descriptor(kvp.value, JunkDescriptor(junk), cfg, junk), idx, kvp.key)

---------------------------------------------------------------------------
(* config_init                                                             *)

ZeroConfig ==
    [layers |-> <<>>, spare_layer |-> ZeroLayer,
     descriptors |-> <<>>, macros |-> <<>>, commands |-> <<>>,
     aliases |-> [c \in KeyCodes |-> <<>>],
     ids |-> <<>>, excluded_ids |-> <<>>, wildcard |-> 0,
     macro_timeout |-> 0, macro_sequence_timeout |-> 0, macro_repeat_timeout |-> 0,
     layer_indicator |-> 0, default_layout |-> <<>>]

\* config.c:306-324, the default modifier bindings of the main layer
RECURSIVE config_init_mods(_, _)
config_init_mods(cfg, i) ==
    IF i > MAX_MOD THEN cfg
    ELSE LET mod == modifier_table[i]
             idx == config_get_layer_index(cfg, mod.name)
             bind(k, c) == [k EXCEPT ![c] = [@ EXCEPT !.op = "OP_LAYER", !.args[1] = idx]]
         IN  config_init_mods(
                 [cfg EXCEPT !.layers[1].keymap = bind(bind(@, mod.code1), mod.code2),
                             !.aliases = [@ EXCEPT ![mod.code1] = mod.name, ![mod.code2] = mod.name]],
                 i + 1)

\* config.c:291
config_init ==
    LET c1 == config_add_layer(ZeroConfig, <<"m","a","i","n">>).cfg
        c2 == config_add_layer(c1, <<"c","o","n","t","r","o","l",":","C">>).cfg
        c3 == config_add_layer(c2, <<"m","e","t","a",":","M">>).cfg
        c4 == config_add_layer(c3, <<"s","h","i","f","t",":","S">>).cfg
        c5 == config_add_layer(c4, <<"a","l","t","g","r",":","G">>).cfg
        c6 == config_add_layer(c5, <<"a","l","t",":","A">>).cfg
    IN  [config_init_mods(c6, 1) EXCEPT !.macro_timeout = 600, !.macro_repeat_timeout = 50]

---------------------------------------------------------------------------
(* Sections: ids, aliases, global; config_check_match                      *)

HexDigits == <<"0","1","2","3","4","5","6","7","8","9","a","b","c","d","e","f">>

IsHex(c) == \E i \in 1..16 : HexDigits[i] = c

HexVal(c) == (CHOOSE i \in 1..16 : HexDigits[i] = c) - 1

\* sscanf's %hx at offset i of s: the run of hexadecimal digits there, as
\* an unsigned short.  ok is FALSE when there is no digit; next is the
\* offset after the run.
RECURSIVE scan_hx(_, _, _, _)
scan_hx(s, i, acc, n) ==
    IF i <= Len(s) /\ IsHex(s[i]) THEN scan_hx(s, i + 1, acc * 16 + HexVal(s[i]), n + 1)
    ELSE [ok |-> n > 0, val |-> U16(acc), next |-> i]

\* sscanf(s + from - 1, "%hx:%hx", &vendor, &product) == 2
scan_id(s, from) ==
    LET v == scan_hx(s, from, 0, 0)
        q == scan_hx(s, v.next + 1, 0, 0)
    IN  IF v.ok /\ v.next <= Len(s) /\ s[v.next] = ":" /\ q.ok
        THEN [ok |-> TRUE, id |-> v.val * 65536 + q.val]
        ELSE [ok |-> FALSE, id |-> 0]

\* config.c:707.  entries is the section's entries, by key.  Returns
\* [cfg, abort]: the asserts on the capacity of ids and excluded_ids abort.
RECURSIVE parse_id_section(_, _)
parse_id_section(cfg, entries) ==
    IF entries = <<>> THEN [cfg |-> cfg, abort |-> FALSE]
    ELSE LET s == entries[1]
             ex == IF s # <<>> /\ s[1] = "-" THEN scan_id(s, 2) ELSE [ok |-> FALSE, id |-> 0]
             al == scan_id(s, 1)
         IN  IF s = <<"*">>
             THEN parse_id_section([cfg EXCEPT !.wildcard = 1], Tail(entries))
             ELSE IF ex.ok
             THEN IF ~(Len(cfg.excluded_ids) < MaxIds) THEN [cfg |-> cfg, abort |-> TRUE]
                  ELSE parse_id_section([cfg EXCEPT !.excluded_ids = Append(@, ex.id)], Tail(entries))
             ELSE IF al.ok
             THEN IF ~(Len(cfg.ids) < MaxIds) THEN [cfg |-> cfg, abort |-> TRUE]
                  ELSE parse_id_section([cfg EXCEPT !.ids = Append(@, al.id)], Tail(entries))
             ELSE parse_id_section(cfg, Tail(entries))

\* config_check_match consulting the exclude list first
config_check_match_exclude_first(cfg, id) ==
    IF \E i \in 1..Len(cfg.excluded_ids) : cfg.excluded_ids[i] = id THEN 0
    ELSE IF \E i \in 1..Len(cfg.ids) : cfg.ids[i] = id THEN 2
    ELSE IF cfg.wildcard # 0 THEN 1 ELSE 0

\* config.c:832
config_check_match(cfg, id) ==
    IF \E i \in 1..Len(cfg.ids) : cfg.ids[i] = id THEN 2
    ELSE IF \E i \in 1..Len(cfg.excluded_ids) : cfg.excluded_ids[i] = id THEN 0
    ELSE IF cfg.wildcard # 0 THEN 1 ELSE 0

\* alias_entry recording the alias only when it remaps the key
alias_entry_remap_only(cfg, ent) ==
    LET code == lookup_keycode(ent.key)
        name == ent.val
        alias_code == lookup_keycode(name)
    IN  IF code = 0 THEN cfg
        ELSE IF Len(name) >= MaxAliasLen THEN cfg
        ELSE IF alias_code # 0
        THEN [cfg EXCEPT !.layers[1].keymap[code] =
                             [@ EXCEPT !.op = "OP_KEYSEQUENCE", !.args[1] = alias_code, !.args[2] = 0],
                         !.aliases[code] = name]
        ELSE cfg

\* config.c:739-762, one entry of the aliases section
alias_entry(cfg, ent) ==
    LET code == lookup_keycode(ent.key)
        name == ent.val
        alias_code == lookup_keycode(name)
        c1 == IF alias_code # 0
              THEN [cfg EXCEPT !.layers[1].keymap[code] =
                       [@ EXCEPT !.op = "OP_KEYSEQUENCE", !.args[1] = alias_code, !.args[2] = 0]]
              ELSE cfg
    IN  IF code = 0 THEN cfg
        ELSE IF Len(name) >= MaxAliasLen THEN cfg
        ELSE [c1 EXCEPT !.aliases[code] = name]

\* config.c:733.  entries is the section's entries: [key, val].
RECURSIVE parse_alias_section(_, _)
parse_alias_section(cfg, entries) ==
    IF entries = <<>> THEN cfg
    ELSE parse_alias_section(alias_entry(cfg, entries[1]), Tail(entries))

\* config.c:684
RECURSIVE parse_global_section(_, _)
parse_global_section(cfg, entries) ==
    IF entries = <<>> THEN cfg
    ELSE LET ent == entries[1]
             c1 == IF ent.key = <<"m","a","c","r","o","_","t","i","m","e","o","u","t">>
                   THEN [cfg EXCEPT !.macro_timeout = atoi(ent.val)]
                   ELSE IF ent.key = <<"m","a","c","r","o","_","s","e","q","u","e","n","c","e","_","t","i","m","e","o","u","t">>
                   THEN [cfg EXCEPT !.macro_sequence_timeout = atoi(ent.val)]
                   ELSE IF ent.key = <<"d","e","f","a","u","l","t","_","l","a","y","o","u","t">>
                   THEN [cfg EXCEPT !.default_layout = ent.val]
                   ELSE IF ent.key = <<"m","a","c","r","o","_","r","e","p","e","a","t","_","t","i","m","e","o","u","t">>
                   THEN [cfg EXCEPT !.macro_repeat_timeout = atoi(ent.val)]
                   ELSE IF ent.key = <<"l","a","y","e","r","_","i","n","d","i","c","a","t","o","r">>
                   THEN [cfg EXCEPT !.layer_indicator = atoi(ent.val)]
                   ELSE cfg
         IN  parse_global_section(c1, Tail(entries))

---------------------------------------------------------------------------
(* The state machine                                                       *)

\* read_file before the call: sz is the count of bytes in buf, total the
\* count of bytes of the expanded text, truncated whether any of them is
\* missing from buf.
RfIdle == [pc |-> "idle", ret |-> "none", sz |-> 0, total |-> 0, truncated |-> FALSE, nlines |-> 0]

Init ==
    /\ config = config_init
    /\ call = [op |-> "config_init", arg |-> <<>>, ret |-> 0]
    /\ aborted = FALSE
    /\ ncalls = 0
    /\ rf = RfIdle

CanCall == ~aborted /\ ncalls < MaxCalls

ConfigAddLayer(s) ==
    /\ CanCall
    /\ LET r == config_add_layer(config, s)
       IN  /\ config' = r.cfg
           /\ call' = [op |-> "config_add_layer", arg |-> s, ret |-> r.ret]
    /\ ncalls' = ncalls + 1
    /\ UNCHANGED <<aborted, rf>>

ConfigAddEntry(exp, junk) ==
    /\ CanCall
    /\ LET r == config_add_entry(config, exp, junk)
       IN  /\ config' = r.cfg
           /\ call' = [op |-> "config_add_entry", arg |-> exp, ret |-> r.ret]
           /\ aborted' = r.abort
    /\ ncalls' = ncalls + 1
    /\ UNCHANGED rf

ParseIdSection(entries) ==
    /\ CanCall
    /\ LET r == parse_id_section(config, entries)
       IN  /\ config' = r.cfg
           /\ call' = [op |-> "parse_id_section", arg |-> entries, ret |-> 0]
           /\ aborted' = r.abort
    /\ ncalls' = ncalls + 1
    /\ UNCHANGED rf

ParseAliasSection(entries) ==
    /\ CanCall
    /\ config' = parse_alias_section(config, entries)
    /\ call' = [op |-> "parse_alias_section", arg |-> entries, ret |-> 0]
    /\ ncalls' = ncalls + 1
    /\ UNCHANGED <<aborted, rf>>

ParseGlobalSection(entries) ==
    /\ CanCall
    /\ config' = parse_global_section(config, entries)
    /\ call' = [op |-> "parse_global_section", arg |-> entries, ret |-> 0]
    /\ ncalls' = ncalls + 1
    /\ UNCHANGED <<aborted, rf>>

ConfigCheckMatch(id) ==
    /\ ~aborted
    /\ call' = [op |-> "config_check_match", arg |-> id, ret |-> config_check_match(config, id)]
    /\ UNCHANGED <<config, aborted, ncalls, rf>>

---------------------------------------------------------------------------
(* Inputs                                                                  *)

RECURSIVE Join(_, _)
Join(parts, sep) ==
    IF parts = <<>> THEN <<>>
    ELSE IF Len(parts) = 1 THEN parts[1]
    ELSE parts[1] \o <<sep>> \o Join(Tail(parts), sep)

\* The name of a composite of k of the seeded modifier layers:
\* control+meta, control+meta+altgr, ...
ChainName(k) == Join([i \in 1..k |-> modifier_table[((2 * i - 2) % MAX_MOD) + 1].name], "+")

LayerInputs ==
    { <<"a">>,
      <<"a",":","l","a","y","o","u","t">>,
      <<"a",":","C">>,
      <<"a",":","x">>,
      <<"b">>,
      <<"a","+","c","o","n","t","r","o","l">>,
      <<"c","o","n","t","r","o","l","+","a">>,
      <<"c","o","n","t","r","o","l","+","s","h","i","f","t">>,
      <<"c","o","n","t","r","o","l","+","s","h","i","f","t",":","C">> }
    \cup {ChainName(k) : k \in 2..(MaxConstituents + 1)}

---------------------------------------------------------------------------
(* The layer registry alone                                                *)

NextRegistry == \E s \in LayerInputs : ConfigAddLayer(s)

SpecRegistry == Init /\ [][NextRegistry]_vars

---------------------------------------------------------------------------
(* Properties of the layer registry                                        *)

\* the part of a section name before its ':type' suffix
NameOf(s) == strtok(s, ":")[1]

\* the '+'-separated parts of the name
PartsOf(s) == strtok(NameOf(s), "+")

IsComposite(s) == strchr(NameOf(s), "+")

IsAddLayerStep == call'.op = "config_add_layer" /\ ncalls' = ncalls + 1

LastLayer(cfg) == cfg.layers[nr_layers(cfg)]

\* C3: a composite name with more parts than the constituents array holds
\* is refused by config_add_layer (ret < 0), and every registered composite
\* layer has at most MaxConstituents constituents.
C3_CompositeCapacityEnforced ==
    /\ \A i \in 1..nr_layers(config) :
           config.layers[i].type = "LT_COMPOSITE" =>
               Len(config.layers[i].constituents) <= MaxConstituents
    /\ (call.op = "config_add_layer" /\ IsComposite(call.arg) /\
        Len(PartsOf(call.arg)) > MaxConstituents) => call.ret < 0

\* the composite names x+y of two parts, without a type
IsPair(s) == IsComposite(s) /\ Len(PartsOf(s)) = 2 /\ s = NameOf(s)

C8_Refused == call'.ret < 0 /\ nr_layers(config') = nr_layers(config)

C8_Created(s) ==
    /\ call'.ret = 0
    /\ nr_layers(config') = nr_layers(config) + 1
    /\ SubSeq(config'.layers, 1, nr_layers(config)) = config.layers
    /\ LastLayer(config').type = "LT_COMPOSITE"
    /\ LastLayer(config').constituents =
           << config_get_layer_index(config, PartsOf(s)[1]),
              config_get_layer_index(config, PartsOf(s)[2]) >>

BothRegistered(cfg, s) ==
    /\ config_get_layer_index(cfg, PartsOf(s)[1]) # -1
    /\ config_get_layer_index(cfg, PartsOf(s)[2]) # -1

\* C8 as claimed: config_add_layer on x+y is refused, nr_layers unchanged,
\* when x or y is not registered; when both are registered it returns 0 and
\* appends one composite layer whose constituents are <<index(x), index(y)>>.
C8_CompositeAfterConstituents ==
    [][(IsAddLayerStep /\ IsPair(call'.arg)) =>
           IF BothRegistered(config, call'.arg) THEN C8_Created(call'.arg) ELSE C8_Refused]_vars

\* C8 amended: config_add_layer on x+y is refused, nr_layers unchanged, when
\* x or y is not registered; when both are registered, x+y itself is not yet
\* registered and fewer than MAX_LAYERS layers exist, it returns 0 and
\* appends one composite layer whose constituents are <<index(x), index(y)>>.
C8_CompositeAfterConstituentsWithRoom ==
    [][(IsAddLayerStep /\ IsPair(call'.arg)) =>
           IF ~BothRegistered(config, call'.arg) THEN C8_Refused
           ELSE (config_get_layer_index(config, call'.arg) = -1 /\
                 nr_layers(config) < MAX_LAYERS) => C8_Created(call'.arg)]_vars

\* C8's case: a+control registered after a, its constituents in the order
\* of the name.
C8_Witness ==
    /\ call.op = "config_add_layer"
    /\ call.arg = <<"a","+","c","o","n","t","r","o","l">>
    /\ call.ret = 0
    /\ LastLayer(config).type = "LT_COMPOSITE"
    /\ LastLayer(config).constituents = <<config_get_layer_index(config, <<"a">>), 1>>
    /\ config_get_layer_index(config, <<"a">>) > 1

C10_UniqueNames ==
    \A i, j \in 1..nr_layers(config) :
        config.layers[i].name = config.layers[j].name => i = j

\* C10: config_add_layer on a name whose name part is registered returns 1
\* and changes nothing of the configuration; no two registered layers have
\* the same name.
C10_AddLayerIdempotent ==
    /\ [][(IsAddLayerStep /\ config_get_layer_index(config, NameOf(call'.arg)) # -1) =>
             (call'.ret = 1 /\ config' = config)]_vars
    /\ []C10_UniqueNames

\* C10's case: a:layout added when a is registered as a normal layer.
C10_Witness ==
    /\ call.op = "config_add_layer"
    /\ call.arg = <<"a",":","l","a","y","o","u","t">>
    /\ call.ret = 1
    /\ \E i \in 1..nr_layers(config) :
           config.layers[i].name = <<"a">> /\ config.layers[i].type = "LT_NORMAL"

---------------------------------------------------------------------------
(* The ids section and config_check_match                                  *)

IdKeys ==
    { <<"*">>,
      <<"1",":","1">>,
      <<"-","1",":","1">>,
      <<"1",":","2">>,
      <<"-","1",":","2">>,
      <<"z","z">> }

IdSections ==
    {<<k>> : k \in IdKeys} \cup
    { << <<"1",":","1">>, <<"-","1",":","1">> >>,
      << <<"-","1",":","2">>, <<"*">> >> }

\* the candidate ids 1:1, 1:2, 2:1
CheckIds == {scan_id(s, 1).id : s \in {<<"1",":","1">>, <<"1",":","2">>, <<"2",":","1">>}}

NextIds ==
    \/ \E e \in IdSections : ParseIdSection(e)
    \/ \E id \in CheckIds : ConfigCheckMatch(id)

SpecIds == Init /\ [][NextIds]_vars

\* C2: config_check_match returns 2 for an id of the allow-list, also when
\* it is excluded; otherwise 0 for an id of the exclude-list, also when the
\* wildcard flag is set; otherwise 1 exactly when the wildcard flag is set.
C2_AllowDominatesExclude ==
    call.op = "config_check_match" =>
        LET allowed == call.arg \in Range(config.ids)
            excluded == call.arg \in Range(config.excluded_ids)
        IN  /\ allowed => call.ret = 2
            /\ (~allowed /\ excluded) => call.ret = 0
            /\ (~allowed /\ ~excluded) => (call.ret = 1 <=> config.wildcard # 0)
            /\ (~allowed /\ ~excluded /\ config.wildcard = 0) => call.ret = 0

\* C2's case: an id in both lists is allowed.
C2_Witness ==
    /\ call.op = "config_check_match"
    /\ call.arg \in Range(config.ids)
    /\ call.arg \in Range(config.excluded_ids)
    /\ call.ret = 2

---------------------------------------------------------------------------
(* The aliases section                                                     *)

AliasEntries ==
    { [key |-> <<"a">>, val |-> <<"b">>],
      [key |-> <<"a">>, val |-> <<"n","a","v">>],
      [key |-> <<"b">>, val |-> <<"e","s","c","a","p","e">>],
      [key |-> <<"e","s","c","a","p","e">>, val |-> <<"n","a","v">>],
      [key |-> <<"z","z">>, val |-> <<"b">>],
      [key |-> <<"a">>, val |-> <<"t","o","o","l","o","n","g","n","a","m","e">>],
      [key |-> <<"l","e","f","t","s","h","i","f","t">>, val |-> <<"a">>] }

AliasSections ==
    {<<e>> : e \in AliasEntries} \cup
    { << [key |-> <<"a">>, val |-> <<"n","a","v">>], [key |-> <<"b">>, val |-> <<"n","a","v">>] >> }

\* uninitialised stack contents
JunkValues == {0, 255}

AliasBindings ==
    { <<"a"," ","="," ","b">>,                                  \* "a = b"
      <<"n","a","v"," ","="," ","e","s","c">>,                  \* "nav = esc"
      <<"c","o","n","t","r","o","l"," ","="," ","a">> }         \* "control = a"

NextAliases ==
    \/ \E e \in AliasSections : ParseAliasSection(e)
    \/ \E exp \in AliasBindings, junk \in JunkValues : ConfigAddEntry(exp, junk)

SpecAliases == Init /\ [][NextAliases]_vars

MainKeymap(cfg) == cfg.layers[1].keymap

\* C9: an aliases entry x = v, x a keycode name and v shorter than the
\* alias cap, sets the alias of x to v, changes no other alias, and changes
\* the keymap of main only when v names a keycode: then slot x becomes
\* KeySequence(keycode(v), no modifiers) and no other slot changes.
C9_AliasEntryEffect ==
    [][(call'.op = "parse_alias_section" /\ ncalls' = ncalls + 1 /\ Len(call'.arg) = 1
        /\ lookup_keycode(call'.arg[1].key) # 0
        /\ Len(call'.arg[1].val) < MaxAliasLen) =>
           LET x == lookup_keycode(call'.arg[1].key)
               v == call'.arg[1].val
           IN  /\ config'.aliases = [config.aliases EXCEPT ![x] = v]
               /\ IF lookup_keycode(v) # 0
                  THEN /\ MainKeymap(config')[x].op = "OP_KEYSEQUENCE"
                       /\ MainKeymap(config')[x].args[1] = lookup_keycode(v)
                       /\ MainKeymap(config')[x].args[2] = 0
                       /\ \A c \in KeyCodes \ {x} : MainKeymap(config')[c] = MainKeymap(config)[c]
                  ELSE MainKeymap(config') = MainKeymap(config)
               /\ \A i \in 2..nr_layers(config) : config'.layers[i] = config.layers[i]
               /\ nr_layers(config') = nr_layers(config)]_vars

\* C9's case: the alias a = nav of a key that is bound in main leaves the
\* binding alone and records the alias.
C9_Witness ==
    /\ call.op = "parse_alias_section"
    /\ call.arg = << [key |-> <<"a">>, val |-> <<"n","a","v">>] >>
    /\ config.aliases[30] = <<"n","a","v">>
    /\ MainKeymap(config)[30].op = "OP_KEYSEQUENCE"
    /\ MainKeymap(config)[30].args[1] = 48

---------------------------------------------------------------------------
(* Toggle-class actions and the main layer                                 *)

\* swap, swap2, oneshot, toggle, toggle2, layer, overload with the Layer
\* argument main, and each kind of remaining argument
ToggleMainExprs ==
    { <<"s","w","a","p","(","m","a","i","n",")">>,
      <<"o","n","e","s","h","o","t","(","m","a","i","n",")">>,
      <<"t","o","g","g","l","e","(","m","a","i","n",")">>,
      <<"l","a","y","e","r","(","m","a","i","n",")">>,
      <<"s","w","a","p","("," ","m","a","i","n",")">>,
      <<"s","w","a","p","2","(","m","a","i","n",","," ","a",")">>,
      <<"s","w","a","p","2","(","m","a","i","n",","," ","m","a","c","r","o","(","a"," ","b",")",")">>,
      <<"s","w","a","p","2","(","m","a","i","n",","," ","a","+","z","z",")">>,
      <<"t","o","g","g","l","e","2","(","m","a","i","n",","," ","a",")">>,
      <<"t","o","g","g","l","e","2","(","m","a","i","n",","," ","a","+","z","z",")">>,
      <<"o","v","e","r","l","o","a","d","(","m","a","i","n",","," ","a",")">>,
      <<"o","v","e","r","l","o","a","d","(","m","a","i","n",","," ","s","w","a","p","(","s","h","i","f","t",")",")">>,
      <<"o","v","e","r","l","o","a","d","(","m","a","i","n",","," ","z","z",")">> }

\* the same inside a nested descriptor
ToggleMainNested ==
    { <<"o","v","e","r","l","o","a","d","(","s","h","i","f","t",","," ","s","w","a","p","(","m","a","i","n",")",")">>,
      <<"t","i","m","e","o","u","t","(","s","w","a","p","(","m","a","i","n",")",","," ","1","0",","," ","a",")">>,
      <<"t","i","m","e","o","u","t","(","a",","," ","1","0",","," ","l","a","y","e","r","(","m","a","i","n",")",")">> }

\* expressions that target other layers
ToggleOtherExprs ==
    { <<"s","w","a","p","(","s","h","i","f","t",")">>,
      <<"l","a","y","e","r","(","c","o","n","t","r","o","l",")">>,
      <<"o","v","e","r","l","o","a","d","(","s","h","i","f","t",","," ","b",")">>,
      <<"s","w","a","p","2","(","s","h","i","f","t",","," ","a",")">>,
      <<"o","n","e","s","h","o","t","(","a","l","t",")">>,
      <<"t","o","g","g","l","e","(","m","e","t","a",")">>,
      <<"t","o","g","g","l","e","2","(","a","l","t","g","r",","," ","b",")">>,
      <<"o","v","e","r","l","o","a","d","(","c","o","n","t","r","o","l",","," ","s","w","a","p","(","s","h","i","f","t",")",")">>,
      <<"b">> }

\* the binding of key a to the expression e
ToggleEntry(e) == <<"a", " ", "=", " ">> \o e

ToggleEntries ==
    {ToggleEntry(e) : e \in ToggleMainExprs \cup ToggleMainNested \cup ToggleOtherExprs}

NextToggle == \E exp \in ToggleEntries, junk \in JunkValues : ConfigAddEntry(exp, junk)

SpecToggle == Init /\ [][NextToggle]_vars

\* no Layer argument of d is the index of main
TargetsOk(d) ==
    \A k \in 1..Len(ArgTypes(d.op)) : ArgTypes(d.op)[k] = "ARG_LAYER" => d.args[k] # 0

NoMainTarget(cfg) ==
    /\ \A i \in 1..nr_layers(cfg) : \A c \in KeyCodes : TargetsOk(cfg.layers[i].keymap[c])
    /\ \A k \in 1..nr_descriptors(cfg) : TargetsOk(cfg.descriptors[k])

\* C6: an expression of a toggle-class action whose Layer argument is main
\* is refused: binding a key to it fails, parse_descriptor returns failure
\* for it in every reachable configuration, and no keymap slot or pooled
\* descriptor has the index of main in a Layer argument.
C6_MainNotToggled ==
    /\ (call.op = "config_add_entry" /\
        \E e \in ToggleMainExprs \cup ToggleMainNested : call.arg = ToggleEntry(e))
           => call.ret = -1
    /\ \A e \in ToggleMainExprs \cup ToggleMainNested : \A j \in JunkValues :
           parse_descriptor(e, JunkDescriptor(j), config, j).ret = -1
    /\ NoMainTarget(config)

\* C6's case: swap2(main, a) refused after overload(shift, b) was bound.
C6_Witness ==
    /\ call.op = "config_add_entry"
    /\ call.arg = ToggleEntry(<<"s","w","a","p","2","(","m","a","i","n",","," ","a",")">>)
    /\ call.ret = -1
    /\ MainKeymap(config)[30].op = "OP_OVERLOAD"
    /\ MainKeymap(config)[30].args[1] = config_get_layer_index(config, <<"s","h","i","f","t">>)

---------------------------------------------------------------------------
(* Arity of the actions                                                    *)

\* An action name with a list of fields: for every name of the action table,
\* 0 to MAX_DESCRIPTOR_ARGS + 1 fields of the types the action expects, and
\* lists with an empty field before or after them.
ArityCases ==
    { [name |-> <<"s","w","a","p">>, fields |-> <<>>],
      [name |-> <<"s","w","a","p">>, fields |-> <<<<"s","h","i","f","t">>>>],
      [name |-> <<"s","w","a","p">>, fields |-> <<<<"s","h","i","f","t">>, <<"b">>>>],
      [name |-> <<"s","w","a","p">>, fields |-> <<<<"s","h","i","f","t">>, <<"b">>, <<"b">>>>],
      [name |-> <<"s","w","a","p">>, fields |-> <<<<"s","h","i","f","t">>, <<"b">>, <<"b">>, <<"b">>>>],
      [name |-> <<"s","w","a","p">>, fields |-> <<<<>>, <<"s","h","i","f","t">>>>],
      [name |-> <<"s","w","a","p">>, fields |-> <<<<"s","h","i","f","t">>, <<>>>>],
      [name |-> <<"s","w","a","p","2">>, fields |-> <<>>],
      [name |-> <<"s","w","a","p","2">>, fields |-> <<<<"s","h","i","f","t">>>>],
      [name |-> <<"s","w","a","p","2">>, fields |-> <<<<"s","h","i","f","t">>, <<"a">>>>],
      [name |-> <<"s","w","a","p","2">>, fields |-> <<<<"s","h","i","f","t">>, <<"a">>, <<"b">>>>],
      [name |-> <<"s","w","a","p","2">>, fields |-> <<<<"s","h","i","f","t">>, <<"a">>, <<"b">>, <<"b">>>>],
      [name |-> <<"s","w","a","p","2">>, fields |-> <<<<>>, <<"s","h","i","f","t">>, <<"a">>>>],
      [name |-> <<"s","w","a","p","2">>, fields |-> <<<<"s","h","i","f","t">>, <<"a">>, <<>>>>],
      [name |-> <<"c","l","e","a","r">>, fields |-> <<>>],
      [name |-> <<"c","l","e","a","r">>, fields |-> <<<<"b">>>>],
      [name |-> <<"c","l","e","a","r">>, fields |-> <<<<"b">>, <<"b">>>>],
      [name |-> <<"c","l","e","a","r">>, fields |-> <<<<"b">>, <<"b">>, <<"b">>>>],
      [name |-> <<"c","l","e","a","r">>, fields |-> <<<<"b">>, <<"b">>, <<"b">>, <<"b">>>>],
      [name |-> <<"o","n","e","s","h","o","t">>, fields |-> <<>>],
      [name |-> <<"o","n","e","s","h","o","t">>, fields |-> <<<<"s","h","i","f","t">>>>],
      [name |-> <<"o","n","e","s","h","o","t">>, fields |-> <<<<"s","h","i","f","t">>, <<"b">>>>],
      [name |-> <<"o","n","e","s","h","o","t">>, fields |-> <<<<"s","h","i","f","t">>, <<"b">>, <<"b">>>>],
      [name |-> <<"o","n","e","s","h","o","t">>, fields |-> <<<<"s","h","i","f","t">>, <<"b">>, <<"b">>, <<"b">>>>],
      [name |-> <<"o","n","e","s","h","o","t">>, fields |-> <<<<>>, <<"s","h","i","f","t">>>>],
      [name |-> <<"o","n","e","s","h","o","t">>, fields |-> <<<<"s","h","i","f","t">>, <<>>>>],
      [name |-> <<"t","o","g","g","l","e">>, fields |-> <<>>],
      [name |-> <<"t","o","g","g","l","e">>, fields |-> <<<<"s","h","i","f","t">>>>],
      [name |-> <<"t","o","g","g","l","e">>, fields |-> <<<<"s","h","i","f","t">>, <<"b">>>>],
      [name |-> <<"t","o","g","g","l","e">>, fields |-> <<<<"s","h","i","f","t">>, <<"b">>, <<"b">>>>],
      [name |-> <<"t","o","g","g","l","e">>, fields |-> <<<<"s","h","i","f","t">>, <<"b">>, <<"b">>, <<"b">>>>],
      [name |-> <<"t","o","g","g","l","e">>, fields |-> <<<<>>, <<"s","h","i","f","t">>>>],
      [name |-> <<"t","o","g","g","l","e">>, fields |-> <<<<"s","h","i","f","t">>, <<>>>>],
      [name |-> <<"t","o","g","g","l","e","2">>, fields |-> <<>>],
      [name |-> <<"t","o","g","g","l","e","2">>, fields |-> <<<<"s","h","i","f","t">>>>],
      [name |-> <<"t","o","g","g","l","e","2">>, fields |-> <<<<"s","h","i","f","t">>, <<"a">>>>],
      [name |-> <<"t","o","g","g","l","e","2">>, fields |-> <<<<"s","h","i","f","t">>, <<"a">>, <<"b">>>>],
      [name |-> <<"t","o","g","g","l","e","2">>, fields |-> <<<<"s","h","i","f","t">>, <<"a">>, <<"b">>, <<"b">>>>],
      [name |-> <<"t","o","g","g","l","e","2">>, fields |-> <<<<>>, <<"s","h","i","f","t">>, <<"a">>>>],
      [name |-> <<"t","o","g","g","l","e","2">>, fields |-> <<<<"s","h","i","f","t">>, <<"a">>, <<>>>>],
      [name |-> <<"l","a","y","e","r">>, fields |-> <<>>],
      [name |-> <<"l","a","y","e","r">>, fields |-> <<<<"s","h","i","f","t">>>>],
      [name |-> <<"l","a","y","e","r">>, fields |-> <<<<"s","h","i","f","t">>, <<"b">>>>],
      [name |-> <<"l","a","y","e","r">>, fields |-> <<<<"s","h","i","f","t">>, <<"b">>, <<"b">>>>],
      [name |-> <<"l","a","y","e","r">>, fields |-> <<<<"s","h","i","f","t">>, <<"b">>, <<"b">>, <<"b">>>>],
      [name |-> <<"l","a","y","e","r">>, fields |-> <<<<>>, <<"s","h","i","f","t">>>>],
      [name |-> <<"l","a","y","e","r">>, fields |-> <<<<"s","h","i","f","t">>, <<>>>>],
      [name |-> <<"o","v","e","r","l","o","a","d">>, fields |-> <<>>],
      [name |-> <<"o","v","e","r","l","o","a","d">>, fields |-> <<<<"s","h","i","f","t">>>>],
      [name |-> <<"o","v","e","r","l","o","a","d">>, fields |-> <<<<"s","h","i","f","t">>, <<"b">>>>],
      [name |-> <<"o","v","e","r","l","o","a","d">>, fields |-> <<<<"s","h","i","f","t">>, <<"b">>, <<"b">>>>],
      [name |-> <<"o","v","e","r","l","o","a","d">>, fields |-> <<<<"s","h","i","f","t">>, <<"b">>, <<"b">>, <<"b">>>>],
      [name |-> <<"o","v","e","r","l","o","a","d">>, fields |-> <<<<>>, <<"s","h","i","f","t">>, <<"b">>>>],
      [name |-> <<"o","v","e","r","l","o","a","d">>, fields |-> <<<<"s","h","i","f","t">>, <<"b">>, <<>>>>],
      [name |-> <<"t","i","m","e","o","u","t">>, fields |-> <<>>],
      [name |-> <<"t","i","m","e","o","u","t">>, fields |-> <<<<"b">>>>],
      [name |-> <<"t","i","m","e","o","u","t">>, fields |-> <<<<"b">>, <<"5">>>>],
      [name |-> <<"t","i","m","e","o","u","t">>, fields |-> <<<<"b">>, <<"5">>, <<"b">>>>],
      [name |-> <<"t","i","m","e","o","u","t">>, fields |-> <<<<"b">>, <<"5">>, <<"b">>, <<"b">>>>],
      [name |-> <<"t","i","m","e","o","u","t">>, fields |-> <<<<>>, <<"b">>, <<"5">>, <<"b">>>>],
      [name |-> <<"t","i","m","e","o","u","t">>, fields |-> <<<<"b">>, <<"5">>, <<"b">>, <<>>>>],
      [name |-> <<"m","a","c","r","o","2">>, fields |-> <<>>],
      [name |-> <<"m","a","c","r","o","2">>, fields |-> <<<<"5">>>>],
      [name |-> <<"m","a","c","r","o","2">>, fields |-> <<<<"5">>, <<"5">>>>],
      [name |-> <<"m","a","c","r","o","2">>, fields |-> <<<<"5">>, <<"5">>, <<"a">>>>],
      [name |-> <<"m","a","c","r","o","2">>, fields |-> <<<<"5">>, <<"5">>, <<"a">>, <<"b">>>>],
      [name |-> <<"m","a","c","r","o","2">>, fields |-> <<<<>>, <<"5">>, <<"5">>, <<"a">>>>],
      [name |-> <<"m","a","c","r","o","2">>, fields |-> <<<<"5">>, <<"5">>, <<"a">>, <<>>>>],
      [name |-> <<"s","e","t","l","a","y","o","u","t">>, fields |-> <<>>],
      [name |-> <<"s","e","t","l","a","y","o","u","t">>, fields |-> <<<<"s","h","i","f","t">>>>],
      [name |-> <<"s","e","t","l","a","y","o","u","t">>, fields |-> <<<<"s","h","i","f","t">>, <<"b">>>>],
      [name |-> <<"s","e","t","l","a","y","o","u","t">>, fields |-> <<<<"s","h","i","f","t">>, <<"b">>, <<"b">>>>],
      [name |-> <<"s","e","t","l","a","y","o","u","t">>, fields |-> <<<<"s","h","i","f","t">>, <<"b">>, <<"b">>, <<"b">>>>],
      [name |-> <<"s","e","t","l","a","y","o","u","t">>, fields |-> <<<<>>, <<"s","h","i","f","t">>>>],
      [name |-> <<"s","e","t","l","a","y","o","u","t">>, fields |-> <<<<"s","h","i","f","t">>, <<>>>>] }

\* the binding a = name(field, field, ...)
ArityEntry(c) == <<"a", " ", "=", " ">> \o c.name \o <<"(">> \o Join(c.fields, ",") \o <<")">>

\* the number of arguments the action table gives the name
Arity(name) == Len(actions[CHOOSE i \in 1..Len(actions) : actions[i].name = name].args)

NextArity == \E c \in ArityCases, junk \in JunkValues : ConfigAddEntry(ArityEntry(c), junk)

SpecArity == Init /\ [][NextArity]_vars

\* C7: an action called with a number of fields other than its arity is
\* refused with an error: the binding returns -1 and no assertion aborts
\* the process.
C7_ArityMismatchFatal ==
    \A c \in ArityCases :
        (call.op = "config_add_entry" /\ call.arg = ArityEntry(c) /\
         Len(c.fields) # Arity(c.name)) => (call.ret = -1 /\ ~aborted)

---------------------------------------------------------------------------
(* parse_macro_expression on macro texts                                   *)

\* config.c:415 applied to the text s; the macro it fills is recorded with
\* the result.  The call writes nothing of the configuration.
ParseMacroExpression(s) ==
    /\ ~aborted
    /\ call' = [op |-> "parse_macro_expression", arg |-> s,
                ret |-> parse_macro_expression(s, <<>>).ret,
                macro |-> parse_macro_expression(s, <<>>).macro]
    /\ UNCHANGED <<config, aborted, ncalls, rf>>

MaxMacroTokens == 2

\* a key name, literal text with a shifted and an unknown character, a
\* chord, a timeout, a chord with a timeout, a chord with an unknown key,
\* and a chord of more entries than a macro holds
MacroTokens ==
    { <<"a">>,
      <<"A","z">>,
      <<"a","+","b">>,
      <<"2","0","0","m","s">>,
      <<"a","+","2","0","0","m","s">>,
      <<"a","+","z","z">>,
      <<"a","+","b","+","a">> }

\* the texts of 1 to MaxMacroTokens tokens, bare and wrapped as macro(...)
MacroBareTexts ==
    {Join(ts, " ") : ts \in UNION {[1..n -> MacroTokens] : n \in 1..MaxMacroTokens}}

MacroWrap(s) == <<"m","a","c","r","o","(">> \o s \o <<")">>

MacroTexts == MacroBareTexts \cup {MacroWrap(s) : s \in MacroBareTexts}

NextMacro == \E s \in MacroTexts : ParseMacroExpression(s)

SpecMacro == Init /\ [][NextMacro]_vars

Text200ms == <<"2","0","0","m","s">>

TextAplusB == <<"a","+","b">>

Timeout200 == << [type |-> "MACRO_TIMEOUT", data |-> 200] >>

HoldAHoldBRelease ==
    << [type |-> "MACRO_HOLD", data |-> lookup_keycode(<<"a">>)],
       [type |-> "MACRO_HOLD", data |-> lookup_keycode(<<"b">>)],
       [type |-> "MACRO_RELEASE", data |-> 0] >>

\* C5 as claimed: parse_macro_expression on the text 200ms returns 0 with
\* the one entry Timeout(200); on the text a+b it returns 0 with the
\* entries Hold(a), Hold(b), Release.
C5_MacroTexts ==
    call.op = "parse_macro_expression" =>
        /\ call.arg = Text200ms => (call.ret = 0 /\ call.macro = Timeout200)
        /\ call.arg = TextAplusB => (call.ret = 0 /\ call.macro = HoldAHoldBRelease)

\* C5 amended: parse_macro_expression on macro(200ms) returns 0 with the
\* one entry Timeout(200); on macro(a+b) it returns 0 with the entries
\* Hold(a), Hold(b), Release; on the bare texts 200ms and a+b, which are
\* neither a key sequence nor a single character, it returns -1.
C5_WrappedMacroTexts ==
    call.op = "parse_macro_expression" =>
        /\ call.arg = MacroWrap(Text200ms) => (call.ret = 0 /\ call.macro = Timeout200)
        /\ call.arg = MacroWrap(TextAplusB) => (call.ret = 0 /\ call.macro = HoldAHoldBRelease)
        /\ call.arg \in {Text200ms, TextAplusB} => call.ret = -1

\* C5's case: macro(a+b) compiled to three entries.
C5_Witness ==
    /\ call.op = "parse_macro_expression"
    /\ call.arg = MacroWrap(TextAplusB)
    /\ call.ret = 0
    /\ Len(call.macro) = 3

---------------------------------------------------------------------------
(* read_file                                                               *)

MaxLines == 4

\* strlen(line) of what fgets returns: at most MAX_LINE_LEN - 1 characters
LineLens == {1, MAX_LINE_LEN - 1}

\* strlen(line) of an "include <path>\n" line
IncludeLineLens == {10, MAX_LINE_LEN - 1}

\* the sizes of the included files
IncludeSizes == {0, 100, MAX_FILE_SZ - 100, MAX_FILE_SZ, MAX_FILE_SZ + 4464}

\* config.c:145-147
ReadFail == [rf EXCEPT !.pc = "done", !.ret = "NULL"]

\* config.c:92-96.  opened is whether fopen succeeded.
ReadOpen(opened) ==
    /\ rf.pc = "idle"
    /\ rf' = IF opened THEN [rf EXCEPT !.pc = "loop", !.sz = 0] ELSE ReadFail
    /\ UNCHANGED <<config, call, aborted, ncalls>>

\* config.c:98-110, 136-139: fgets returned a line of len characters that
\* is not an include line; nl is whether its last character is a newline.
ReadLine(len, nl) ==
    /\ rf.pc = "loop"
    /\ rf.nlines < MaxLines
    /\ rf' = IF ~nl THEN ReadFail
             ELSE IF len + rf.sz > MAX_FILE_SZ THEN ReadFail
             ELSE [rf EXCEPT !.sz = @ + len, !.total = @ + len, !.nlines = @ + 1]
    /\ UNCHANGED <<config, call, aborted, ncalls>>

\* config.c:98-135: fgets returned an include line of len characters.
\* resolved is whether resolve_include_path found the file, opened whether
\* open succeeded, fsize the size of the file: the read loop of
\* config.c:132 stores at most sizeof(buf) - sz bytes of it.
ReadInclude(len, nl, resolved, opened, fsize) ==
    /\ rf.pc = "loop"
    /\ rf.nlines < MaxLines
    /\ rf' = IF ~nl THEN ReadFail
             ELSE IF len + rf.sz > MAX_FILE_SZ THEN ReadFail
             ELSE IF ~resolved \/ ~opened THEN [rf EXCEPT !.nlines = @ + 1]
             ELSE [rf EXCEPT !.sz = Min({@ + fsize, MAX_FILE_SZ}),
                             !.total = @ + fsize,
                             !.truncated = @ \/ (rf.sz + fsize > MAX_FILE_SZ),
                             !.nlines = @ + 1]
    /\ UNCHANGED <<config, call, aborted, ncalls>>

\* config.c:98, 142-143: fgets returned NULL
ReadEof ==
    /\ rf.pc = "loop"
    /\ rf' = [rf EXCEPT !.pc = "done", !.ret = "buf"]
    /\ UNCHANGED <<config, call, aborted, ncalls>>

NextRead ==
    \/ \E opened \in BOOLEAN : ReadOpen(opened)
    \/ \E len \in LineLens, nl \in BOOLEAN : ReadLine(len, nl)
    \/ \E len \in IncludeLineLens, nl \in BOOLEAN, resolved \in BOOLEAN, opened \in BOOLEAN,
          fsize \in IncludeSizes : ReadInclude(len, nl, resolved, opened, fsize)
    \/ ReadEof

SpecRead == Init /\ [][NextRead]_vars

\* C4: read_file returns a text only when the lines of the root file and
\* the contents of the included files together are at most MAX_FILE_SZ
\* bytes and all of them are in the text; sz never exceeds MAX_FILE_SZ.
C4_OversizeFatal ==
    /\ rf.sz <= MAX_FILE_SZ
    /\ (rf.pc = "done" /\ rf.ret = "buf") => (rf.total <= MAX_FILE_SZ /\ ~rf.truncated)

---------------------------------------------------------------------------
(* The whole compiler: layers, sections and bindings in any order          *)

\* section names: a layout, a plain layer, a composite
SectionNames ==
    { <<"a",":","l","a","y","o","u","t">>,
      <<"b">>,
      <<"b","+","c","o","n","t","r","o","l">> }

\* bindings: every kind of argument, nested descriptors, a layer prefix,
\* an alias, an unknown key and a refused layer
Bindings ==
    { <<"a"," ","="," ","o","v","e","r","l","o","a","d","(","s","h","i","f","t",","," ","b",")">>,
      <<"b",".","a"," ","="," ","t","i","m","e","o","u","t","(","a",","," ","5",","," ","b",")">>,
      <<"a"," ","="," ","s","w","a","p","2","(","b",","," ","m","a","c","r","o","(","a"," ","b",")",")">>,
      <<"a"," ","="," ","s","e","t","l","a","y","o","u","t","(","a",")">>,
      <<"a"," ","="," ","c","o","m","m","a","n","d","(","l","s",")">>,
      <<"a"," ","="," ","m","a","c","r","o","(","a","+","b",")">>,
      <<"z","z"," ","="," ","o","v","e","r","l","o","a","d","(","s","h","i","f","t",","," ","b",")">>,
      <<"a"," ","="," ","t","i","m","e","o","u","t","(","o","v","e","r","l","o","a","d","(","s","h","i","f","t",","," ","a",")",","," ","1","0",","," ","b",")">>,
      <<"n","a","v"," ","="," ","l","a","y","e","r","(","s","h","i","f","t",")">>,
      <<"a"," ","="," ","s","w","a","p","(","m","a","i","n",")">>,
      <<"a"," ","="," ","m","a","c","r","o","2","(","5",","," ","5",","," ","m","a","c","r","o","(","a"," ","b",")",")">>,
      <<"b"," ","="," ","s","w","a","p","(","b","+","c","o","n","t","r","o","l",")">> }

GlobalSections ==
    { << [key |-> <<"m","a","c","r","o","_","t","i","m","e","o","u","t">>, val |-> <<"1","0","0">>],
         [key |-> <<"d","e","f","a","u","l","t","_","l","a","y","o","u","t">>, val |-> <<"a">>] >> }

SpecIdSections == { << <<"*">> >>, << <<"1",":","1">>, <<"-","1",":","1">> >> }

SpecAliasSections ==
    { << [key |-> <<"a">>, val |-> <<"n","a","v">>] >>,
      << [key |-> <<"b">>, val |-> <<"n","a","v">>], [key |-> <<"e","s","c">>, val |-> <<"a">>] >> }

Next ==
    \/ \E s \in SectionNames : ConfigAddLayer(s)
    \/ \E exp \in Bindings, junk \in JunkValues : ConfigAddEntry(exp, junk)
    \/ \E e \in SpecIdSections : ParseIdSection(e)
    \/ \E e \in SpecAliasSections : ParseAliasSection(e)
    \/ \E e \in GlobalSections : ParseGlobalSection(e)

Spec == Init /\ [][Next]_vars

\* the arguments of d that index a pool are within the pool's count
IndexOk(cfg, d) ==
    \A k \in 1..Len(ArgTypes(d.op)) :
        LET type == ArgTypes(d.op)[k]
            n == IF type \in {"ARG_LAYER", "ARG_LAYOUT"} THEN nr_layers(cfg)
                 ELSE IF type = "ARG_DESCRIPTOR" THEN nr_descriptors(cfg)
                 ELSE IF type = "ARG_MACRO" THEN nr_macros(cfg)
                 ELSE nr_commands(cfg)
        IN  type # "ARG_TIMEOUT" => d.args[k] \in 0..(n - 1)

IndicesValid ==
    /\ \A i \in 1..nr_layers(config) : \A c \in KeyCodes : IndexOk(config, config.layers[i].keymap[c])
    /\ \A k \in 1..nr_descriptors(config) : IndexOk(config, config.descriptors[k])

\* the identity of a layer: what a binding does not write
LayerId(l) == [name |-> l.name, type |-> l.type, mods |-> l.mods, constituents |-> l.constituents]

PoolsGrowOnly ==
    /\ nr_layers(config') >= nr_layers(config)
    /\ \A i \in 1..nr_layers(config) : LayerId(config'.layers[i]) = LayerId(config.layers[i])
    /\ nr_descriptors(config') >= nr_descriptors(config)
    /\ SubSeq(config'.descriptors, 1, nr_descriptors(config)) = config.descriptors
    /\ nr_macros(config') >= nr_macros(config)
    /\ SubSeq(config'.macros, 1, nr_macros(config)) = config.macros
    /\ nr_commands(config') >= nr_commands(config)
    /\ SubSeq(config'.commands, 1, nr_commands(config)) = config.commands

\* C1: in every state every layer, layout, descriptor, macro and command
\* index stored in a descriptor of a keymap or of the descriptor pool is
\* below the count of its pool; no step lowers a pool's count or rewrites
\* an entry already in a pool (for a layer: its name, type, modifiers and
\* constituents).
C1_PoolIndicesValid == []IndicesValid /\ [][PoolsGrowOnly]_vars

\* C1's case: a failed binding after a successful one, both having added a
\* nested descriptor to the pool.
C1_Witness ==
    /\ call.op = "config_add_entry"
    /\ call.ret = -1
    /\ nr_descriptors(config) = 2
    /\ MainKeymap(config)[30].op = "OP_OVERLOAD"
    /\ MainKeymap(config)[30].args[2] = 0

---------------------------------------------------------------------------
(* Failed bindings                                                         *)

IsFailedEntryStep ==
    call'.op = "config_add_entry" /\ ncalls' = ncalls + 1 /\ call'.ret < 0

KeymapsUnchanged ==
    /\ nr_layers(config') = nr_layers(config)
    /\ \A i \in 1..nr_layers(config) : config'.layers[i].keymap = config.layers[i].keymap

PoolCountsUnchanged ==
    /\ nr_descriptors(config') = nr_descriptors(config)
    /\ nr_macros(config') = nr_macros(config)
    /\ nr_commands(config') = nr_commands(config)

\* C11: a config_add_entry call that returns failure leaves every layer's
\* keymap as it was and leaves the counts of the descriptor, macro and
\* command pools as they were.
C11_FailedEntryNoEffect ==
    [][IsFailedEntryStep => (KeymapsUnchanged /\ PoolCountsUnchanged)]_vars

=============================================================================
